---- MODULE Spec2Model ----
(***************************************************************************)
(* Offline-first task sync: the Local Mutation Service (TaskService), the  *)
(* Sync Engine (SyncService.sync) and the remote batch handler             *)
(* (POST /batch), each with its own database (tasks table + sync_queue).   *)
(* Both sides run the same TaskService code on their own database.         *)
(***************************************************************************)
EXTENDS Integers, Sequences, FiniteSets, TLC

VARIABLES
    local,      \* the client database: [tasks, queue]
    remote,     \* the database behind the remote /batch endpoint
    now,        \* the wall clock read by new Date()
    uuid,       \* number of identifiers uuidv4() has handed out on each side
    pc,         \* position of the sync run: idle, transmit, reconcile
    batches,    \* sync(): the in-memory batches of the run
    bi,         \* sync(): index of the batch being processed
    resp,       \* processed_items of the batch being processed
    ri,         \* sync(): index of the processed item being reconciled
    results,    \* sync(): the SyncResult being aggregated / last returned
    delivered,  \* history: ids of the entries the handler took in this run, in order
    torn,       \* history: records whose latest local mutation call threw
    returned    \* what the last updateTask call returned to its caller

vars == <<local, remote, now, uuid, pc, batches, bi, resp, ri, results, delivered,
          torn, returned>>

(* ------------------------------ bounds -------------------------------- *)
MaxTime == 1          \* the clock stops advancing here
MaxCalls == 2         \* local mutation calls (create, update, delete) made
MaxBatchSize == 2     \* SYNC_BATCH_SIZE is chosen in 1..MaxBatchSize
MaxRetryCount == 4    \* a delivery may fail only while its retry counts are below

(* --------------------------- program values --------------------------- *)
maxRetries == 3
NoTime == -1          \* last_synced_at not set
NoId == 0             \* server_id not set (NULL) / '' in an error outcome
NoTitle == "null"     \* title NULL: createTask called without a title

Titles == {"A"}
\* the bodies of PUT /:id the model draws: the caller-supplied delta
Deltas == {[title |-> "B"]}
             \cup {[completed |-> TRUE, updated_at |-> t] : t \in {0, MaxTime}}
NoMessage == "<null>" \* error_message NULL
ErrorText == "error"  \* error.message of a thrown Error; the code never inspects it

UnknownId == 99       \* an id in a request that no task carries
NoCall == [call |-> "none"]

EmptyDb == [tasks |-> <<>>, queue |-> <<>>]

Has(r, f) == f \in DOMAIN r

\* uuidv4(): the k-th identifier drawn after g = [site, n] were handed out.
\* Identifiers are globally unique: the client's are positive, the remote
\* side's negative.
Uuid(g, k) == IF g.site = "local" THEN g.n + k ELSE 0 - (g.n + k)

(* ---------------------------- TaskService ----------------------------- *)
getTaskById(db, id) ==
    IF id \in DOMAIN db.tasks THEN <<db.tasks[id]>> ELSE <<>>

getTask(db, id) ==
    IF id \in DOMAIN db.tasks /\ ~db.tasks[id].is_deleted
    THEN <<db.tasks[id]>> ELSE <<>>

addToSyncQueue(db, entryId, taskId, operation, data, t) ==
    [db EXCEPT !.queue = Append(@,
        [id |-> entryId, task_id |-> taskId, operation |-> operation,
         data |-> data, created_at |-> t, retry_count |-> 0,
         error_message |-> NoMessage])]

\* the task row createTask builds from taskData
newTask(id, taskData, t) ==
    [id |-> id,
     title |-> IF Has(taskData, "title") THEN taskData.title ELSE NoTitle,
     description |-> IF Has(taskData, "description") THEN taskData.description ELSE "",
     completed |-> FALSE, created_at |-> t, updated_at |-> t,
     is_deleted |-> FALSE, sync_status |-> "pending",
     last_synced_at |-> NoTime, server_id |-> NoId]

\* createTask up to and including INSERT INTO tasks
insertTask(db, g, taskData, t) ==
    [db EXCEPT !.tasks = (Uuid(g, 1) :> newTask(Uuid(g, 1), taskData, t)) @@ @]

\* createTask enqueueing the whole row as the entry's data
createTask_FullRow(db, g, taskData, t) ==
    LET row == newTask(Uuid(g, 1), taskData, t)
    IN addToSyncQueue(insertTask(db, g, taskData, t), Uuid(g, 2), Uuid(g, 1), "create",
                      row, t)

createTask(db, g, taskData, t) ==
    LET row == newTask(Uuid(g, 1), taskData, t)
    IN addToSyncQueue(insertTask(db, g, taskData, t), Uuid(g, 2), Uuid(g, 1), "create",
                      [title |-> row.title, description |-> row.description], t)

\* updateTask up to and including UPDATE tasks SET ...
patchTask(db, id, updates, t) ==
    LET old == db.tasks[id]
        merged == [f \in DOMAIN old |->
                      IF f = "updated_at" THEN t
                      ELSE IF f = "sync_status" THEN "pending"
                      ELSE IF Has(updates, f) THEN updates[f] ELSE old[f]]
    IN [db EXCEPT !.tasks[id] = merged]

\* updateTask without its addToSyncQueue call
updateTask_NoAppend(db, g, id, updates, t) ==
    IF getTaskById(db, id) = <<>> THEN db ELSE patchTask(db, id, updates, t)

updateTask(db, g, id, updates, t) ==
    IF getTaskById(db, id) = <<>> THEN db
    ELSE addToSyncQueue(patchTask(db, id, updates, t), Uuid(g, 1), id, "update", updates, t)

\* what updateTask returns: <<>> is null, otherwise the row of getTask
updateTaskReturn(db, g, id, updates, t) ==
    IF getTaskById(db, id) = <<>> THEN <<>>
    ELSE getTask(updateTask(db, g, id, updates, t), id)

\* deleteTask up to and including UPDATE tasks SET is_deleted = 1 ...
softDelete(db, id, t) ==
    [db EXCEPT !.tasks[id].is_deleted = TRUE,
               !.tasks[id].updated_at = t,
               !.tasks[id].sync_status = "pending"]

deleteTask(db, g, id, t) ==
    IF getTaskById(db, id) = <<>> THEN db
    ELSE addToSyncQueue(softDelete(db, id, t), Uuid(g, 1), id, "delete", <<>>, t)

(* ---------------------------- SyncService ----------------------------- *)
RECURSIVE Insert(_, _)
\* x placed into the sequence s, already sorted by created_at, after its ties
Insert(s, x) ==
    IF s = <<>> THEN <<x>>
    ELSE IF x.created_at < Head(s).created_at THEN <<x>> \o s
    ELSE <<Head(s)>> \o Insert(Tail(s), x)

RECURSIVE SortByCreatedAt(_)
SortByCreatedAt(q) ==
    IF q = <<>> THEN <<>>
    ELSE Insert(SortByCreatedAt(SubSeq(q, 1, Len(q) - 1)), q[Len(q)])

\* the query with ORDER BY created_at DESC
getSyncQueueItems_Desc(db) ==
    LET asc == SortByCreatedAt(db.queue)
    IN [k \in 1..Len(asc) |-> asc[Len(asc) + 1 - k]]

\* SELECT * FROM sync_queue ORDER BY created_at ASC
getSyncQueueItems(db) == SortByCreatedAt(db.queue)

RECURSIVE Partition(_, _)
\* the loop for (i = 0; i < items.length; i += batchSize) items.slice(i, i + batchSize)
Partition(items, batchSize) ==
    IF items = <<>> THEN <<>>
    ELSE IF Len(items) <= batchSize THEN <<items>>
    ELSE <<SubSeq(items, 1, batchSize)>>
            \o Partition(SubSeq(items, batchSize + 1, Len(items)), batchSize)

\* position of the queue row with this id, 0 when there is none
RowOf(q, id) ==
    IF \E k \in 1..Len(q) : q[k].id = id
    THEN CHOOSE k \in 1..Len(q) : q[k].id = id ELSE 0

RemoveAt(q, k) == SubSeq(q, 1, k - 1) \o SubSeq(q, k + 1, Len(q))

\* updateSyncStatus(queueItemId, 'synced', serverData); serverData is <<>> or <<snapshot>>
updateSyncStatus(db, queueItemId, serverData, t) ==
    LET k == RowOf(db.queue, queueItemId) IN
    IF k = 0 THEN db
    ELSE
      LET taskId == db.queue[k].task_id
          sd == IF serverData = <<>> THEN <<>> ELSE serverData[1]
          set(old) ==
            [f \in DOMAIN old |->
               IF f = "sync_status" THEN "synced"
               ELSE IF f = "last_synced_at" THEN t
               ELSE IF serverData = <<>> THEN old[f]
               ELSE IF f = "server_id" THEN (IF sd.server_id # NoId THEN sd.server_id ELSE old[f])
               ELSE IF f \in {"title", "description", "completed", "updated_at"} THEN sd[f]
               ELSE old[f]]
      IN [tasks |-> IF taskId \in DOMAIN db.tasks
                    THEN [db.tasks EXCEPT ![taskId] = set(@)] ELSE db.tasks,
          queue |-> RemoveAt(db.queue, k)]

\* handleSyncError(item, error): item is the in-memory copy of the queue row
handleSyncError(db, item, message) ==
    LET newRetryCount == item.retry_count + 1
        permanent == newRetryCount >= maxRetries
        k == RowOf(db.queue, item.id)
    IN [tasks |-> IF permanent /\ item.task_id \in DOMAIN db.tasks
                  THEN [db.tasks EXCEPT ![item.task_id].sync_status = "error"]
                  ELSE db.tasks,
        queue |-> IF k = 0 THEN db.queue
                  ELSE [db.queue EXCEPT ![k].retry_count = newRetryCount,
                                        ![k].error_message =
                                            IF permanent THEN "Permanent failure: " \o message
                                            ELSE message]]

\* the catch branch handling the first item of the batch only
handleAll_FirstOnly(db, batch, message) ==
    IF batch = <<>> THEN db ELSE handleSyncError(db, Head(batch), message)

RECURSIVE handleAll(_, _, _)
\* the catch branch of sync(): handleSyncError for every item of the batch
handleAll(db, batch, message) ==
    IF batch = <<>> THEN db
    ELSE handleAll(handleSyncError(db, Head(batch), message), Tail(batch), message)

\* batch.find(item => item.task_id === processed.client_id)
find(batch, clientId) ==
    batch[CHOOSE k \in 1..Len(batch) :
            /\ batch[k].task_id = clientId
            /\ \A j \in 1..(k - 1) : batch[j].task_id # clientId]

(* ------------------------- POST /batch handler ------------------------ *)
Processed(clientId, serverId, status, resolved, error) ==
    [client_id |-> clientId, server_id |-> serverId, status |-> status,
     resolved_data |-> resolved, error |-> error]

\* the error outcome without the item's task_id
ErrorOutcome_NoClientId(item) == Processed(NoId, NoId, "error", <<>>, ErrorText)

ErrorOutcome(item) == Processed(item.task_id, NoId, "error", <<>>, ErrorText)

\* the comparison with >= in place of >
clientWins_OnTie(data, localTask) ==
    Has(data, "updated_at") /\ data.updated_at >= localTask.updated_at

\* new Date(data.updated_at) > new Date(localTask.updated_at); an absent
\* updated_at makes an Invalid Date, and every comparison with it is false
clientWins(data, localTask) ==
    Has(data, "updated_at") /\ data.updated_at > localTask.updated_at

\* number of identifiers the handler draws for this item
UuidsFor(db, item) ==
    LET localTask == getTaskById(db, item.task_id) IN
    IF item.operation = "create" THEN 2
    ELSE IF item.operation = "update"
         THEN (IF localTask = <<>> THEN 2
               ELSE IF clientWins(item.data, localTask[1]) THEN 1
               ELSE 0)
    ELSE (IF localTask = <<>> THEN 0 ELSE 1)

\* One iteration of the handler's loop. fault names where a database call of
\* this iteration throws: "none", or "read" (the SELECT of getTaskById,
\* before anything is written): the catch branch answers error.
batchItem(db, g, item, t, fault) ==
    LET localTask == getTaskById(db, item.task_id)
        created == createTask(db, g, item.data, t)
        createdOut == Processed(item.task_id, Uuid(g, 1), "success",
                                getTaskById(created, Uuid(g, 1)), NoMessage)
    IN
    IF fault = "read" THEN [db |-> db, out |-> ErrorOutcome(item)]
    ELSE IF item.operation = "create" \/ (item.operation = "update" /\ localTask = <<>>) THEN
        [db |-> created, out |-> createdOut]
    ELSE IF item.operation = "update" THEN
        IF clientWins(item.data, localTask[1]) THEN
            LET updated == updateTask(db, g, item.task_id, item.data, t)
            IN [db |-> updated,
                out |-> Processed(item.task_id, item.task_id, "success",
                                  getTask(updated, item.task_id), NoMessage)]
        ELSE [db |-> db,
              out |-> Processed(item.task_id, item.task_id, "conflict",
                                localTask, NoMessage)]
    ELSE \* delete
        IF localTask = <<>>
        THEN [db |-> db,
              out |-> Processed(item.task_id, item.task_id, "success", <<>>, NoMessage)]
        ELSE [db |-> deleteTask(db, g, item.task_id, t),
              out |-> Processed(item.task_id, item.task_id, "success", <<>>, NoMessage)]

Faults == {"none", "read"}

(* ------------------------------ sync run ------------------------------ *)
LocalUuid == [site |-> "local", n |-> uuid.local]
RemoteUuid == [site |-> "remote", n |-> uuid.remote]

Batch == batches[bi]
NoResults == [success |-> TRUE, synced_items |-> 0, failed_items |-> 0]

\* sync() up to the first processBatch: load the queue, build the batches
SyncStart ==
    /\ pc = "idle"
    /\ LET items == getSyncQueueItems(local) IN
       IF items = <<>>
       THEN /\ results' = NoResults
            /\ UNCHANGED <<pc, batches, bi>>
       ELSE /\ \E batchSize \in 1..MaxBatchSize : batches' = Partition(items, batchSize)
            /\ bi' = 1
            /\ pc' = "transmit"
            /\ results' = NoResults
    /\ resp' = <<>>
    /\ ri' = 0
    /\ delivered' = <<>>
    /\ UNCHANGED <<local, remote, now, uuid, torn, returned>>

\* the remote handler takes the next item of the request
RemoteItem ==
    /\ pc = "transmit"
    /\ Len(resp) < Len(Batch)
    /\ LET item == Batch[Len(resp) + 1] IN
       /\ \E fault \in Faults :
            /\ fault # "none" => item.retry_count < MaxRetryCount
            /\ LET r == batchItem(remote, RemoteUuid, item, now, fault) IN
                 /\ remote' = r.db
                 /\ resp' = Append(resp, r.out)
            /\ uuid' = [uuid EXCEPT !.remote =
                           IF fault = "none" THEN @ + UuidsFor(remote, item) ELSE @]
       /\ delivered' = Append(delivered, item.id)
    /\ UNCHANGED <<local, now, pc, batches, bi, ri, results, torn, returned>>

\* the response of the batch reaches the client
Receive ==
    /\ pc = "transmit"
    /\ Len(resp) = Len(Batch)
    /\ pc' = "reconcile"
    /\ ri' = 1
    /\ UNCHANGED <<local, remote, now, uuid, batches, bi, resp, results, delivered,
                   torn, returned>>

\* the loop leaving at the first batch that failed in transport
Advance_StopOnFailure(res) ==
    IF bi < Len(batches) /\ res.success
    THEN /\ bi' = bi + 1
         /\ pc' = "transmit"
         /\ results' = res
         /\ UNCHANGED <<batches, delivered>>
    ELSE /\ bi' = 0
         /\ pc' = "idle"
         /\ batches' = <<>>
         /\ delivered' = <<>>
         /\ results' = [res EXCEPT !.success = (res.failed_items = 0)]

\* after a batch: the next one, or results.success = results.failed_items === 0
Advance(res) ==
    IF bi < Len(batches)
    THEN /\ bi' = bi + 1
         /\ pc' = "transmit"
         /\ results' = res
         /\ UNCHANGED <<batches, delivered>>
    ELSE /\ bi' = 0
         /\ pc' = "idle"
         /\ batches' = <<>>
         /\ delivered' = <<>>
         /\ results' = [res EXCEPT !.success = (res.failed_items = 0)]

\* axios.post throws, the request having not reached the handler: the catch
\* branch of sync()
TransportFailure ==
    /\ pc = "transmit"
    /\ Len(resp) = 0
    /\ \A k \in 1..Len(Batch) : Batch[k].retry_count < MaxRetryCount
    /\ local' = handleAll(local, Batch, ErrorText)
    /\ Advance([results EXCEPT !.success = FALSE,
                               !.failed_items = @ + Len(Batch)])
    /\ resp' = <<>>
    /\ ri' = 0
    /\ UNCHANGED <<remote, now, uuid, torn, returned>>

\* one iteration of for (const processed of batchResponse.processed_items)
ReconcileItem ==
    /\ pc = "reconcile"
    /\ LET processed == resp[ri]
           originalItem == find(Batch, processed.client_id)
           synced == processed.status \in {"success", "conflict"}
           res == IF synced
                  THEN [results EXCEPT !.synced_items = @ + 1]
                  ELSE [results EXCEPT !.failed_items = @ + 1]
       IN
       /\ local' = IF synced
                   THEN updateSyncStatus(local, originalItem.id, processed.resolved_data, now)
                   ELSE handleSyncError(local, originalItem, processed.error)
       /\ IF ri < Len(resp)
          THEN /\ ri' = ri + 1
               /\ results' = res
               /\ UNCHANGED <<pc, batches, bi, resp, delivered>>
          ELSE /\ Advance(res)
               /\ resp' = <<>>
               /\ ri' = 0
    /\ UNCHANGED <<remote, now, uuid, torn, returned>>

(* ------------------------- local mutation calls ----------------------- *)
\* local mutation calls made so far: every call draws one identifier for its
\* queue entry, createTask one more for the task
Calls == uuid.local - Cardinality({id \in DOMAIN local.tasks : id > 0})

RunVars == <<pc, batches, bi, resp, ri, results, delivered>>

CreateTask ==
    /\ Calls < MaxCalls
    /\ \E title \in Titles :
          local' = createTask(local, LocalUuid, [title |-> title], now)
    /\ uuid' = [uuid EXCEPT !.local = @ + 2]
    /\ UNCHANGED <<remote, now, RunVars, torn, returned>>

UpdateTask ==
    /\ Calls < MaxCalls
    /\ \E id \in DOMAIN local.tasks \cup {UnknownId}, updates \in Deltas :
          /\ local' = updateTask(local, LocalUuid, id, updates, now)
          /\ returned' = [call |-> "update", id |-> id,
                          value |-> updateTaskReturn(local, LocalUuid, id, updates, now)]
          /\ torn' = torn \ {id}
          /\ uuid' = [uuid EXCEPT !.local =
                         IF getTaskById(local, id) = <<>> THEN @ ELSE @ + 1]
    /\ UNCHANGED <<remote, now, RunVars>>

DeleteTask ==
    /\ Calls < MaxCalls
    /\ \E id \in DOMAIN local.tasks :
          /\ local' = deleteTask(local, LocalUuid, id, now)
          /\ torn' = torn \ {id}
    /\ uuid' = [uuid EXCEPT !.local = @ + 1]
    /\ UNCHANGED <<remote, now, RunVars, returned>>

Tick ==
    /\ now < MaxTime
    /\ now' = now + 1
    /\ UNCHANGED <<local, remote, uuid, RunVars, torn, returned>>

\* The services are constructed on a database that is handed to them. Two
\* initial contents are drawn: both databases empty, or both holding one
\* synced task under the same id (the client database is a replica of the
\* remote one), the id having been drawn on the remote side.
Replica == newTask(Uuid([site |-> "remote", n |-> 0], 1), [title |-> "A"], 0)
ReplicaDb(status) ==
    [tasks |-> (Replica.id :> [Replica EXCEPT !.sync_status = status]), queue |-> <<>>]

Init ==
    /\ \/ /\ local = EmptyDb
          /\ remote = EmptyDb
          /\ uuid = [local |-> 0, remote |-> 0]
       \/ /\ local = ReplicaDb("synced")
          /\ remote = ReplicaDb("synced")
          /\ uuid = [local |-> 0, remote |-> 1]
    /\ now = 0
    /\ delivered = <<>>
    /\ torn = {}
    /\ returned = NoCall
    /\ pc = "idle"
    /\ batches = <<>>
    /\ bi = 0
    /\ resp = <<>>
    /\ ri = 0
    /\ results = NoResults

\* The same calls with the INSERT INTO sync_queue of addToSyncQueue throwing:
\* the statement before it has run, the call rejects.
CreateTaskFails ==
    /\ Calls < MaxCalls
    /\ \E title \in Titles :
          local' = insertTask(local, LocalUuid, [title |-> title], now)
    /\ torn' = torn \cup {Uuid(LocalUuid, 1)}
    /\ uuid' = [uuid EXCEPT !.local = @ + 2]
    /\ UNCHANGED <<remote, now, RunVars, returned>>

UpdateTaskFails ==
    /\ Calls < MaxCalls
    /\ \E id \in DOMAIN local.tasks, updates \in Deltas :
          /\ local' = patchTask(local, id, updates, now)
          /\ torn' = torn \cup {id}
    /\ uuid' = [uuid EXCEPT !.local = @ + 1]
    /\ UNCHANGED <<remote, now, RunVars, returned>>

DeleteTaskFails ==
    /\ Calls < MaxCalls
    /\ \E id \in DOMAIN local.tasks :
          /\ local' = softDelete(local, id, now)
          /\ torn' = torn \cup {id}
    /\ uuid' = [uuid EXCEPT !.local = @ + 1]
    /\ UNCHANGED <<remote, now, RunVars, returned>>

Next ==
    \/ CreateTask
    \/ UpdateTask
    \/ DeleteTask
    \/ Tick
    \/ SyncStart
    \/ RemoteItem
    \/ Receive
    \/ TransportFailure
    \/ ReconcileItem

Spec == Init /\ [][Next]_vars

\* A started run is not held up: the handler answers or the request fails,
\* the response is received, and every outcome is reconciled.
SpecLive ==
    /\ Init /\ [][Next]_vars
    /\ WF_vars(RemoteItem \/ TransportFailure)
    /\ WF_vars(Receive)
    /\ WF_vars(ReconcileItem)

\* the system with a local store whose queue INSERT may fail
NextFault ==
    \/ Next
    \/ CreateTaskFails
    \/ UpdateTaskFails
    \/ DeleteTaskFails

SpecFault == Init /\ [][NextFault]_vars

(* ------------------------------ claims -------------------------------- *)
Queued(db, entryId) == RowOf(db.queue, entryId) # 0
EntriesOf(db, taskId) == {k \in 1..Len(db.queue) : db.queue[k].task_id = taskId}
Synced(status) == status \in {"success", "conflict"}

\* C1: an Outbox entry leaves the queue only in a reconcile step of a batch
\* that holds it, and only when the outcome at the entry's own position of
\* the response was success or conflict.
C1_RemovedOnlyOnOwnOutcome ==
    [][\A k \in 1..Len(local.queue) :
          ~Queued(local', local.queue[k].id) =>
             /\ pc = "reconcile"
             /\ \E j \in 1..Len(Batch) :
                   /\ Batch[j].id = local.queue[k].id
                   /\ Synced(resp[j].status)]_vars

\* C2: every record whose sync_status is pending, and whose latest local
\* mutation call completed, has at least one Outbox entry with its id as
\* record_id.
C2_PendingHasEntry ==
    \A id \in DOMAIN local.tasks \ torn :
        local.tasks[id].sync_status = "pending" => EntriesOf(local, id) # {}

\* C2 witness: a sync run has removed an entry and a pending record is queued
C2_Witness ==
    /\ results.synced_items > 0
    /\ \E id \in DOMAIN local.tasks :
          /\ local.tasks[id].sync_status = "pending"
          /\ EntriesOf(local, id) # {}

\* C3: a create, update or delete whose Outbox append fails leaves the
\* Record Store as it was before the call.
C3_FailedAppendLeavesRecords ==
    [][(CreateTaskFails \/ UpdateTaskFails \/ DeleteTaskFails)
          => local'.tasks = local.tasks]_vars

RECURSIVE Flatten(_)
Flatten(ss) == IF ss = <<>> THEN <<>> ELSE Head(ss) \o Flatten(Tail(ss))
\* the entries the run loaded, in transmission order
RunItems == Flatten(batches)
RunEnds == pc # "idle" /\ pc' = "idle"
\* no entry joined the Outbox since the run loaded it
OnlyRunItemsQueued ==
    \A k \in 1..Len(local.queue) :
        \E j \in 1..Len(RunItems) : RunItems[j].id = local.queue[k].id
UserFields == {"title", "description", "completed"}

\* scenario 2: the run loaded a create entry and then an update entry of one
\* record, and every item was answered success
C4_Scenario ==
    /\ pc = "reconcile" /\ RunEnds
    /\ Len(RunItems) = 2
    /\ RunItems[1].operation = "create" /\ RunItems[2].operation = "update"
    /\ RunItems[1].task_id = RunItems[2].task_id
    /\ OnlyRunItemsQueued
    /\ results'.synced_items = 2 /\ results'.failed_items = 0

C4_Resolved == local'.queue = <<>>

C4_ReflectsUpdate ==
    \A f \in DOMAIN RunItems[2].data \cap UserFields :
        local'.tasks[RunItems[2].task_id][f] = RunItems[2].data[f]

\* C4: a create followed by an update before the first sync is loaded as
\* (create, update) in that order; after one run in which every item is
\* answered the Outbox is empty and the record carries the updated values.
C4_CreateThenUpdate ==
    [][/\ (/\ pc = "idle" /\ pc' = "transmit"
           /\ Len(local.queue) = 2
           /\ local.queue[1].operation = "create"
           /\ local.queue[2].operation = "update"
           /\ local.queue[1].task_id = local.queue[2].task_id)
          => Flatten(batches') = local.queue
       /\ C4_Scenario => (C4_Resolved /\ C4_ReflectsUpdate)]_vars

\* scenario 1: the run loaded one create entry, answered success
C5_Scenario ==
    /\ pc = "reconcile" /\ RunEnds
    /\ Len(RunItems) = 1
    /\ RunItems[1].operation = "create"
    /\ RunItems[1].task_id \in DOMAIN local.tasks
    /\ OnlyRunItemsQueued
    /\ resp[1].status = "success"

C5_Drained ==
    /\ local'.queue = <<>>
    /\ local'.tasks[RunItems[1].task_id].sync_status = "synced"

C5_ServerIdSet ==
    local'.tasks[RunItems[1].task_id].server_id = resp[1].server_id

\* C5: after create and one sync run answered with success the Outbox is
\* empty, the record is synced and its server_id is the id the remote side
\* assigned.
C5_CreateThenSync == [][C5_Scenario => (C5_Drained /\ C5_ServerIdSet)]_vars

\* the entry at position j of the last batch failed in this run: its batch
\* was not transmitted, or its own outcome was error
FailedInLastBatch(j) ==
    \/ pc = "transmit"
    \/ pc = "reconcile" /\ resp[j].status = "error"

\* the record of this entry has no other entry, queued or loaded by the run
Alone(item) ==
    /\ \A k \in 1..Len(local.queue) :
          local.queue[k].task_id = item.task_id => local.queue[k].id = item.id
    /\ \A k \in 1..Len(RunItems) :
          RunItems[k].task_id = item.task_id => RunItems[k].id = item.id

\* C6: a run in which an entry fails for the first, second or third time in
\* a row ends with the entry still queued and its retry_count one higher
\* (1, 2, 3); the record's sync_status is error exactly when the count
\* reached 3.
C6_RetryExhaustion ==
    [][RunEnds =>
         \A j \in 1..Len(Batch) :
            (FailedInLastBatch(j) /\ Batch[j].retry_count < maxRetries) =>
               LET n == Batch[j].retry_count + 1
                   k == RowOf(local'.queue, Batch[j].id)
                   id == Batch[j].task_id
               IN /\ k # 0
                  /\ local'.queue[k].retry_count = n
                  /\ (Alone(Batch[j]) /\ id \in DOMAIN local.tasks) =>
                        (local'.tasks[id].sync_status = "error" <=> n = maxRetries)]_vars

\* a step of the remote handler: it takes HandlerItem and answers HandlerOut
HandlerStep == pc = "transmit" /\ Len(resp') = Len(resp) + 1
HandlerItem == Batch[Len(resp) + 1]
HandlerOut == resp'[Len(resp')]
\* an update entry whose target exists remotely, answered without a failure
UpdateOfExisting ==
    /\ HandlerStep
    /\ HandlerItem.operation = "update"
    /\ HandlerItem.task_id \in DOMAIN remote.tasks
    /\ HandlerOut.status # "error"

\* C7: an update with payload updated_at = T1 for a remote record with
\* updated_at = T0: T1 > T0 applies the payload and answers success;
\* T1 <= T0 answers conflict, leaves the remote store as it was and returns
\* the unmodified remote record.
C7_LastWriterWins ==
    [][(UpdateOfExisting /\ Has(HandlerItem.data, "updated_at")) =>
         LET id == HandlerItem.task_id
             T1 == HandlerItem.data.updated_at
             T0 == remote.tasks[id].updated_at
         IN IF T1 > T0
            THEN /\ HandlerOut.status = "success"
                 /\ \A f \in DOMAIN HandlerItem.data \cap UserFields :
                       remote'.tasks[id][f] = HandlerItem.data[f]
            ELSE /\ HandlerOut.status = "conflict"
                 /\ remote' = remote
                 /\ HandlerOut.resolved_data = <<remote.tasks[id]>>]_vars

\* C7 witness: one response holds a client win and a conflict, both for
\* updates that carry updated_at
C7_Witness ==
    /\ pc = "reconcile"
    /\ \E j, k \in 1..Len(resp) :
          /\ Batch[j].operation = "update" /\ Has(Batch[j].data, "updated_at")
          /\ resp[j].status = "success" /\ resp[j].server_id = Batch[j].task_id
          /\ Batch[k].operation = "update" /\ Has(Batch[k].data, "updated_at")
          /\ resp[k].status = "conflict"

\* C8: an update entry enqueued by update() at a time later than the remote
\* record's updated_at is answered success, not conflict.
C8_LaterLocalUpdateWins ==
    [][(UpdateOfExisting
          /\ HandlerItem.created_at > remote.tasks[HandlerItem.task_id].updated_at)
         => HandlerOut.status = "success"]_vars

RunItem(entryId) ==
    RunItems[CHOOSE k \in 1..Len(RunItems) : RunItems[k].id = entryId]

ReconcileStep == pc = "reconcile" /\ ri' # ri

\* C10: an error outcome makes the retry handler run for the entry at the
\* outcome's own position and for no other: that entry stays queued with
\* retry_count one higher, every other queue row is left as it was.
C10_ErrorHandledForOwnEntry ==
    [][(ReconcileStep /\ resp[ri].status = "error") =>
         \A k \in 1..Len(local.queue) :
            IF local.queue[k].id = Batch[ri].id
            THEN /\ Len(local'.queue) >= k
                 /\ local'.queue[k].id = Batch[ri].id
                 /\ local'.queue[k].retry_count = local.queue[k].retry_count + 1
            ELSE /\ Len(local'.queue) >= k
                 /\ local'.queue[k] = local.queue[k]]_vars

\* the catch branch of sync() ran for the current batch
TransportFails == pc = "transmit" /\ bi' # bi

\* C11: when transmitting a batch fails at transport level, every entry of
\* the batch stays in the Outbox with retry_count one higher, no queue row is
\* removed, no record becomes synced, and the run's result has success =
\* FALSE, up to and including the result it returns.
C11_TransportFailure ==
    [][/\ TransportFails =>
            /\ \A j \in 1..Len(Batch) :
                  LET k == RowOf(local.queue, Batch[j].id)
                  IN /\ k # 0
                     /\ RowOf(local'.queue, Batch[j].id) = k
                     /\ local'.queue[k].retry_count = local.queue[k].retry_count + 1
            /\ Len(local'.queue) = Len(local.queue)
            /\ \A id \in DOMAIN local.tasks :
                  local'.tasks[id].sync_status = "synced"
                     => local.tasks[id].sync_status = "synced"
            /\ results'.success = FALSE
       /\ (pc # "idle" /\ results.success = FALSE) => results'.success = FALSE]_vars

\* C11 witness: the first of two batches failed in transport, its entry is
\* queued with retry_count 1, and the run goes on
C11_Witness ==
    /\ pc = "transmit" /\ bi = 2
    /\ results.success = FALSE /\ results.failed_items = 1
    /\ Queued(local, batches[1][1].id)
    /\ local.queue[RowOf(local.queue, batches[1][1].id)].retry_count = 1

SnapshotFields == {"title", "description", "completed", "updated_at"}

\* C12: when the outcome of an update entry is conflict with the server's
\* snapshot, reconciling it overwrites the record's title, description,
\* completed and updated_at with the snapshot's values, sets sync_status to
\* synced and removes the update entry from the Outbox.
C12_ConflictOverwrites ==
    [][(/\ ReconcileStep
        /\ resp[ri].status = "conflict"
        /\ Batch[ri].operation = "update"
        /\ Batch[ri].task_id \in DOMAIN local.tasks) =>
          LET id == Batch[ri].task_id
              snapshot == resp[ri].resolved_data[1]
          IN /\ \A f \in SnapshotFields : local'.tasks[id][f] = snapshot[f]
             /\ local'.tasks[id].sync_status = "synced"
             /\ ~Queued(local', Batch[ri].id)]_vars

\* a step in which updateTask was called and returned
UpdateCall ==
    \/ returned' # returned
    \/ /\ Len(local'.queue) = Len(local.queue) + 1
       /\ local'.queue[Len(local'.queue)].operation = "update"

\* C13: updateTask returns null exactly when no task row with the id exists,
\* a soft-deleted row counting as existing: for an existing row the call
\* returns the updated row, and a call that returns null has left the tasks
\* and the queue as they were.
C13_NotFoundIffAbsent ==
    [][UpdateCall =>
         /\ returned'.value = <<>> <=> returned'.id \notin DOMAIN local.tasks
         /\ returned'.id \in DOMAIN local.tasks
               => returned'.value = <<local'.tasks[returned'.id]>>
         /\ returned'.value = <<>> => local' = local]_vars

\* C14: no step (local create, update or delete, or a step of a sync run,
\* the write of a server snapshot included) makes the updated_at of a record
\* smaller than it was before the step.
C14_UpdatedAtMonotonic ==
    [][\A id \in DOMAIN local.tasks :
          /\ id \in DOMAIN local'.tasks
          /\ local'.tasks[id].updated_at >= local.tasks[id].updated_at]_vars

\* the handler taking the item of this step once more, at time t
Redelivered(t) ==
    batchItem(remote', [site |-> "remote", n |-> uuid'.remote], HandlerItem, t, "none")

ContentFields == {"title", "description", "completed", "is_deleted"}

\* C15: after the handler has taken a delete or an update entry (an update
\* whose target is absent remotely included), taking the same entry a second
\* time answers no error and leaves the remote store with the same set of
\* records and the same title, description, completed and is_deleted.
C15_RedeliveryIdempotent ==
    [][(/\ HandlerStep
        /\ HandlerItem.operation \in {"update", "delete"}
        /\ HandlerOut.status # "error") =>
          \A t \in now..MaxTime :
             LET again == Redelivered(t)
             IN /\ again.out.status # "error"
                /\ DOMAIN again.db.tasks = DOMAIN remote'.tasks
                /\ \A id \in DOMAIN remote'.tasks : \A f \in ContentFields :
                      again.db.tasks[id][f] = remote'.tasks[id][f]]_vars

\* a step in which createTask was called on the client and returned
CreateCall == DOMAIN local'.tasks # DOMAIN local.tasks

\* the fields a caller supplies to createTask
CreateFields == {"title", "description"}

\* C16: right after createTask returns, the Outbox holds exactly one entry
\* with the new record's id; it is a create entry with retry_count 0 whose
\* data holds only title and description, as stored in the record; the
\* record's sync_status is pending and is_deleted is false.
C16_CreatePostState ==
    [][CreateCall =>
         \A id \in DOMAIN local'.tasks \ DOMAIN local.tasks :
            /\ Cardinality(EntriesOf(local', id)) = 1
            /\ \A k \in EntriesOf(local', id) :
                  /\ local'.queue[k].operation = "create"
                  /\ local'.queue[k].retry_count = 0
                  /\ DOMAIN local'.queue[k].data \subseteq CreateFields
                  /\ \A f \in DOMAIN local'.queue[k].data :
                        local'.queue[k].data[f] = local'.tasks[id][f]
            /\ local'.tasks[id].sync_status = "pending"
            /\ local'.tasks[id].is_deleted = FALSE]_vars

\* C16 witness: a record created on the client, with its create entry queued
C16_Witness ==
    \E id \in DOMAIN local.tasks :
       /\ id > 0
       /\ local.tasks[id].sync_status = "pending"
       /\ \E k \in EntriesOf(local, id) :
             local.queue[k].operation = "create" /\ local.queue[k].retry_count = 0

C18_OneOutcomePerItem ==
    /\ [](pc \in {"transmit", "reconcile"} =>
            /\ Len(resp) <= Len(Batch)
            /\ pc = "reconcile" => Len(resp) = Len(Batch)
            /\ \A j \in 1..Len(resp) :
                  /\ resp[j].client_id = Batch[j].task_id
                  /\ resp[j].status \in {"success", "conflict", "error"})
    /\ [][HandlerStep =>
            /\ SubSeq(resp', 1, Len(resp)) = resp
            /\ HandlerOut.client_id = HandlerItem.task_id
            /\ HandlerOut.status = "error" => remote' = remote]_vars

\* C18 witness: a response whose first outcome is error and whose second,
\* for the item after it, is success
C18_Witness ==
    /\ pc = "reconcile"
    /\ Len(resp) = 2
    /\ resp[1].status = "error"
    /\ resp[2].status = "success"

\* C19: every Outbox entry has 0 <= retry_count <= 3, and an entry whose
\* retry_count has reached 3 is left alone by sync runs: a starting run does
\* not load it for transmission, and no step removes it or changes its
\* retry_count.
C19_RetryBounded ==
    /\ [](\A k \in 1..Len(local.queue) : local.queue[k].retry_count \in 0..maxRetries)
    /\ [][\A k \in 1..Len(local.queue) :
            local.queue[k].retry_count >= maxRetries =>
               /\ (pc = "idle" /\ pc' = "transmit") =>
                     \A j \in 1..Len(Flatten(batches')) :
                        Flatten(batches')[j].id # local.queue[k].id
               /\ Queued(local', local.queue[k].id)
               /\ local'.queue[RowOf(local'.queue, local.queue[k].id)].retry_count
                     = local.queue[k].retry_count]_vars

\* C20: whenever no sync run is in flight, every record that has at least
\* one Outbox entry has sync_status pending or error, never synced.
C20_QueuedNeverSynced ==
    pc = "idle" =>
       \A id \in DOMAIN local.tasks :
          EntriesOf(local, id) # {} => local.tasks[id].sync_status \in {"pending", "error"}
====
